---- MODULE Spec2Model ----
(***************************************************************************)
(* RedisTaggedCache (src/src/RedisTaggedCache.js): tag-based invalidation  *)
(* over a key-value store.  Every facade call (set, increment, decrement,  *)
(* flush, deleteForeverKeys, deleteStandardKeys) is a chain of promises;   *)
(* every store round trip (smembers, del, pipeline of sadd, primitive      *)
(* write) is one step of the model, so that calls interleave at exactly    *)
(* the suspension points of the code.                                      *)
(*                                                                         *)
(* The store holds two kinds of entries: primitive values, kept under the  *)
(* fully-qualified cache key, and reference sets, kept under the reference *)
(* key.  A reference set with no member does not exist in the store.       *)
(***************************************************************************)
EXTENDS Integers, Sequences, FiniteSets, TLC

VARIABLES
  values,    \* the fully-qualified cache keys that hold a primitive value
  refs,      \* reference key -> members of the reference set ({} = absent)
  call,      \* call slot -> the state of the facade call running in it
  left,      \* what the environment may still do (calls to start, failures)
             \* and the chunk size and concurrency deleteValues runs with
  owed,      \* history: keys indexed when a flush() that has failed began
  everStd    \* history: keys ever added to a Standard reference set

vars == <<values, refs, call, left, owed, everStd>>

-----------------------------------------------------------------------------
(* Bounds of the model *)

MaxWrites == 2     \* set / increment / decrement calls started in one behaviour
MaxFlushes == 2    \* flush / deleteForeverKeys / deleteStandardKeys calls started
MaxFailures == 1   \* store and resolver failures in one behaviour
MaxMembers == 5    \* members of the reference set a batch delete starts from
SmallChunk == 2    \* chunk size standing in for ChunkSize in BatchSpec
SmallConcurrency == 2  \* concurrency standing in for Concurrency in BatchSpec

Calls == {"c1", "c2"}                       \* calls that may overlap in time
KeySeq == <<"k", "j", "m", "n", "p">>       \* logical cache keys, in some order
Keys == {KeySeq[i] : i \in 1..Len(KeySeq)}
WrittenKeys == {"k", "j"}                   \* the keys set / increment / decrement are called with
StoredKeys == {"k"}                         \* the keys earlier writes have left when flushes start
PresentKeys == {"m"}                        \* the keys already indexed when index calls start
Namespaces == {<<"a">>, <<"a", "|", "b">>}  \* namespaces, as strings of characters
NoTtl == <<>>                               \* ttl argument left undefined
Ttls == {NoTtl, <<0>>, <<60>>}              \* ttl arguments of set

-----------------------------------------------------------------------------
(* Program constants and pure functions *)

REFERENCE_KEY_FOREVER == "forever_ref"
REFERENCE_KEY_STANDARD == "standard_ref"
References == {REFERENCE_KEY_FOREVER, REFERENCE_KEY_STANDARD}

ChunkSize == 1000
Concurrency == 100

tagPrefix == "tags:"
keyPrefix == "cache:"

Min(a, b) == IF a < b THEN a ELSE b

\* namespace.split('|'): the maximal runs of characters between separators
RECURSIVE split(_)
split(s) ==
  IF \A i \in 1..Len(s) : s[i] # "|" THEN <<s>>
  ELSE LET p == CHOOSE i \in 1..Len(s) : s[i] = "|" /\ \A j \in 1..(i - 1) : s[j] # "|"
       IN  <<SubSeq(s, 1, p - 1)>> \o split(SubSeq(s, p + 1, Len(s)))

\* sha1(namespace): a digest, taken to be injective
sha1(s) == <<"sha1", s>>

\* the reference key built without the segment
referenceKeyOfClass(segment, suffix) == <<tagPrefix, <<>>, ":", suffix>>

\* `${this.tagPrefix}${segment}:${suffix}`
referenceKey(segment, suffix) == <<tagPrefix, segment, ":", suffix>>

\* the member built from the hash of the first segment
fullKeyOfSegment(namespace, key) == <<keyPrefix, sha1(split(namespace)[1]), ":", key>>

\* `${this.store.options.keyPrefix}${sha1(namespace)}:${key}`
fullKey(namespace, key) == <<keyPrefix, sha1(namespace), ":", key>>

\* const reference = ttl ? REFERENCE_KEY_STANDARD : REFERENCE_KEY_FOREVER
\* (undefined and 0 are both falsy)
Truthy(ttl) == ttl # NoTtl /\ ttl[1] # 0
referenceOf(ttl) == IF Truthy(ttl) THEN REFERENCE_KEY_STANDARD ELSE REFERENCE_KEY_FOREVER

\* chunkArray, dropping a trailing chunk that is not full
RECURSIVE chunkFromFullOnly(_, _, _)
chunkFromFullOnly(array, chunkSize, i) ==
  IF i + chunkSize > Len(array) THEN <<>>
  ELSE <<SubSeq(array, i + 1, i + chunkSize)>>
         \o chunkFromFullOnly(array, chunkSize, i + chunkSize)

\* for (i = 0, j = array.length; i < j; i += chunkSize) output.push(array.slice(i, i + chunkSize))
RECURSIVE chunkFrom(_, _, _)
chunkFrom(array, chunkSize, i) ==
  IF i >= Len(array) THEN <<>>
  ELSE <<SubSeq(array, i + 1, Min(i + chunkSize, Len(array)))>>
         \o chunkFrom(array, chunkSize, i + chunkSize)

\* chunkArray putting every item in one chunk
chunkArrayWhole(array, chunkSize) == IF array = <<>> THEN <<>> ELSE <<array>>

chunkArray(array, chunkSize) == chunkFrom(array, chunkSize, 0)

\* Array.from(new Set(members)): first occurrences, in order
RECURSIVE Dedup(_)
Dedup(members) ==
  IF members = <<>> THEN <<>>
  ELSE LET init == Dedup(SubSeq(members, 1, Len(members) - 1))
           last == members[Len(members)]
       IN  IF \E i \in 1..Len(init) : init[i] = last THEN init ELSE Append(init, last)

Range(seq) == {seq[i] : i \in 1..Len(seq)}

\* the reply of smembers: the members of the set, in some order
RECURSIVE SetToSeq(_)
SetToSeq(S) == IF S = {} THEN <<>> ELSE LET x == CHOOSE y \in S : TRUE IN <<x>> \o SetToSeq(S \ {x})

Segments == UNION {Range(split(n)) : n \in Namespaces}
RefKeys == {referenceKey(s, r) : s \in Segments, r \in References}
FullKeys == {fullKey(n, k) : n \in Namespaces, k \in Keys}

\* the reference keys of a namespace for one class (deleteKeysByReference, l.171)
referenceKeys(namespace, reference) ==
  [i \in 1..Len(split(namespace)) |-> referenceKey(split(namespace)[i], reference)]

\* the pipeline pushKeys builds: one sadd(referenceKey, fullKey) per segment
pushKeys(namespace, key, reference) ==
  [i \in 1..Len(split(namespace)) |->
     [referenceKey |-> referenceKey(split(namespace)[i], reference),
      member |-> fullKey(namespace, key)]]

pushStandardKeysForever(namespace, key) == pushKeys(namespace, key, REFERENCE_KEY_FOREVER)

pushStandardKeys(namespace, key) == pushKeys(namespace, key, REFERENCE_KEY_STANDARD)

-----------------------------------------------------------------------------
(* The store *)

\* del(keys): removes the named entries, primitive values and sets alike
DelValues(vals, keys) == vals \ keys
DelRefs(rs, keys) == [rk \in RefKeys |-> IF rk \in keys THEN {} ELSE rs[rk]]

\* sadd replacing the set by the member
SaddOverwrite(rs, rk, member) == [rs EXCEPT ![rk] = {member}]

\* sadd removing a member that is already there
SaddToggle(rs, rk, member) ==
  [rs EXCEPT ![rk] = IF member \in @ THEN @ \ {member} ELSE @ \cup {member}]

\* sadd(referenceKey, member): set-union add
Sadd(rs, rk, member) == [rs EXCEPT ![rk] = @ \cup {member}]

-----------------------------------------------------------------------------
(* Facade calls *)

WriteOps == {"set", "increment", "decrement"}
ClassOps == {"deleteForeverKeys", "deleteStandardKeys"}
FlushOps == ClassOps \cup {"flush"}

\* deleteStandardKeys flushing the Forever class as well
classesOfMixed(op) ==
  IF op = "flush" THEN References
  ELSE IF op = "deleteForeverKeys" THEN {REFERENCE_KEY_FOREVER}
  ELSE IF op = "deleteStandardKeys" THEN References
  ELSE {}

\* the classes a flush operation starts (l.97-100, l.150, l.159)
classesOf(op) ==
  IF op = "flush" THEN References
  ELSE IF op = "deleteForeverKeys" THEN {REFERENCE_KEY_FOREVER}
  ELSE IF op = "deleteStandardKeys" THEN {REFERENCE_KEY_STANDARD}
  ELSE {}

\* one deleteKeysByReference(reference) of a call.  st: "none" (not started),
\* "ns" (awaiting the resolver), "values" (awaiting Promise.all of the
\* deleteValues), "delrefs" (store.del(...referenceKeys) in flight), "ok",
\* "fail".  dv[i]: the deleteValues of segment i.
IdleClass == [st |-> "none", dv |-> <<>>, delIssued |-> FALSE]

\* one deleteValues(referenceKey).  st: "smembers" (read in flight), "map"
\* (Promise.map running), "ok", "fail".  started: chunks whose del was issued;
\* inflight: the chunks whose del is in flight.
NewDeleteValues == [st |-> "smembers", chunks |-> <<>>, started |-> 0, inflight |-> {}]

\* the state of a call slot.  result: what the call has reported to its
\* caller.  nsP: the resolver promise of a write; push: pipeline.exec() of
\* pushKeys; prim: the primitive operation (super.set / increment /
\* decrement / flush).  snap and owed0 are history: the keys indexed under
\* each class when the flush began, and the keys owed to it by flushes of
\* its namespace that had failed before it began.
IdleCall ==
  [op |-> "idle", ns |-> <<>>, key |-> "", ttl |-> NoTtl, reference |-> "",
   result |-> "none", nsCalls |-> 0, nsP |-> "none",
   pipe |-> <<>>, pipeAt |-> 0, pipeErr |-> FALSE, push |-> "none",
   prim |-> "none", cls |-> [r \in References |-> IdleClass],
   snap |-> [r \in References |-> {}], owed0 |-> {}]

Active(c) == call[c].op # "idle"
IsWrite(c) == call[c].op \in WriteOps
IsFlush(c) == call[c].op \in FlushOps

AllOk(dv) == \A i \in 1..Len(dv) : dv[i].st = "ok"
AnyOk(dv) == \E i \in 1..Len(dv) : dv[i].st = "ok"
AnyFail(dv) == \E i \in 1..Len(dv) : dv[i].st = "fail"

\* deleteKeysByReference deleting the reference keys as soon as one
\* deleteValues has finished
ClassAfterAny(cl) ==
  IF cl.st = "values" /\ AnyFail(cl.dv) THEN [cl EXCEPT !.st = "fail"]
  ELSE IF cl.st = "values" /\ AnyOk(cl.dv) THEN [cl EXCEPT !.st = "delrefs", !.delIssued = TRUE]
  ELSE cl

\* Promise.all(promises).then(() => this.store.del(...referenceKeys)) (l.175):
\* rejected by the first deleteValues that fails, otherwise the del is issued
\* once every deleteValues has succeeded
ClassAfter(cl) ==
  IF cl.st = "values" /\ AnyFail(cl.dv) THEN [cl EXCEPT !.st = "fail"]
  ELSE IF cl.st = "values" /\ AllOk(cl.dv) THEN [cl EXCEPT !.st = "delrefs", !.delIssued = TRUE]
  ELSE cl

\* flush() calling super.flush() once one class flush has succeeded
FlushAfterAny(rec) ==
  IF rec.prim = "fail" THEN [rec EXCEPT !.result = "fail"]
  ELSE IF rec.prim = "ok" THEN [rec EXCEPT !.result = "ok"]
  ELSE IF rec.prim = "none" /\ \E r \in References : rec.cls[r].st = "ok"
    THEN [rec EXCEPT !.prim = "inflight"]
  ELSE IF \E r \in References : rec.cls[r].st = "fail" THEN [rec EXCEPT !.result = "fail"]
  ELSE rec

\* flush() abandoning the class flush still running when the other one fails
FlushAfterCancel(rec) ==
  IF (\E r \in References : rec.cls[r].st = "fail") \/ rec.prim = "fail"
    THEN [rec EXCEPT !.result = "fail",
                     !.cls = [r \in References |->
                                IF rec.cls[r].st \in {"ns", "values", "delrefs"}
                                  THEN [rec.cls[r] EXCEPT !.st = "cancelled"]
                                  ELSE rec.cls[r]]]
  ELSE IF rec.prim = "ok" THEN [rec EXCEPT !.result = "ok"]
  ELSE IF rec.prim = "none" /\ \A r \in References : rec.cls[r].st = "ok"
    THEN [rec EXCEPT !.prim = "inflight"]
  ELSE rec

\* Promise.all([deleteForeverKeys(), deleteStandardKeys()]).then(() => super.flush())
\* (l.97-101): rejected by the first class flush that fails
FlushAfter(rec) ==
  IF (\E r \in References : rec.cls[r].st = "fail") \/ rec.prim = "fail"
    THEN [rec EXCEPT !.result = "fail"]
  ELSE IF rec.prim = "ok" THEN [rec EXCEPT !.result = "ok"]
  ELSE IF rec.prim = "none" /\ \A r \in References : rec.cls[r].st = "ok"
    THEN [rec EXCEPT !.prim = "inflight"]
  ELSE rec

\* deleteForeverKeys() / deleteStandardKeys() called on their own (l.149-160)
ClassCallAfter(rec) ==
  LET r == CHOOSE x \in classesOf(rec.op) : TRUE
  IN  IF rec.cls[r].st = "fail" THEN [rec EXCEPT !.result = "fail"]
      ELSE IF rec.cls[r].st = "ok" THEN [rec EXCEPT !.result = "ok"]
      ELSE rec

\* set / increment / decrement reporting on the primitive operation alone
WriteAfterPrimitive(rec) ==
  IF rec.nsP = "fail" \/ rec.prim = "fail" THEN [rec EXCEPT !.result = "fail"]
  ELSE IF rec.prim = "ok" THEN [rec EXCEPT !.result = "ok"]
  ELSE rec

\* Promise.all([pushKeys, super.*]) of set / increment / decrement (l.55-58,
\* l.70-73, l.85-88): rejected by the first rejection, fulfilled when the
\* pipeline's exec() and the primitive operation are both fulfilled.  The
\* results exec() resolves with are not inspected.
WriteAfter(rec) ==
  IF rec.nsP = "fail" \/ rec.push = "fail" \/ rec.prim = "fail"
    THEN [rec EXCEPT !.result = "fail"]
  ELSE IF rec.push = "ok" /\ rec.prim = "ok" THEN [rec EXCEPT !.result = "ok"]
  ELSE rec

\* what the call reports once the promise that has just settled is propagated
Settle(rec) ==
  IF rec.result # "none" THEN rec
  ELSE IF rec.op = "flush" THEN FlushAfter(rec)
  ELSE IF rec.op \in ClassOps THEN ClassCallAfter(rec)
  ELSE WriteAfter(rec)

\* the call after the class flush r has moved on
WithClass(rec, r, cl) == Settle([rec EXCEPT !.cls[r] = ClassAfter(cl)])

\* no promise of the call is pending and no store operation is in flight
Quiescent(rec) ==
  /\ rec.nsP # "pending"
  /\ rec.push # "inflight"
  /\ rec.prim # "inflight"
  /\ \A r \in References :
       /\ rec.cls[r].st \in {"none", "ok", "fail"}
       /\ \A i \in 1..Len(rec.cls[r].dv) :
            /\ rec.cls[r].dv[i].st \in {"ok", "fail"}
            /\ rec.cls[r].dv[i].inflight = {}

-----------------------------------------------------------------------------
(* History kept for the properties *)

KeysOfNs(namespace) == {fullKey(namespace, k) : k \in Keys}

\* the keys of the namespace that are indexed under the class: members of
\* the reference set of some segment of the namespace
Indexed(namespace, reference) ==
  {k \in KeysOfNs(namespace) :
     \E i \in 1..Len(split(namespace)) : k \in refs[referenceKeys(namespace, reference)[i]]}

\* slot c may take a new call: of two free slots the first is taken; a
\* caller that awaits its calls starts one only when the calls before it
\* have reported, callers that overlap start one at any time
Free(c) ==
  /\ ~Active(c)
  /\ \A d \in Calls : (d # c /\ ~Active(d)) => c = "c1"
  /\ left.overlap \/ \A d \in Calls : Active(d) => call[d].result # "none"

\* a write starts in slot c
StartWrite(c, rec) ==
  /\ Free(c)
  /\ left.writes > 0
  /\ left' = [left EXCEPT !.writes = @ - 1]
  /\ call' = [call EXCEPT ![c] = rec]
  /\ UNCHANGED <<values, refs, owed, everStd>>

\* a flush() that reports failure owes the keys that were indexed when it began
OwedAfter(old, new) ==
  IF old.op = "flush" /\ old.result = "none" /\ new.result = "fail"
    THEN owed \cup UNION {new.snap[r] : r \in References}
    ELSE owed

\* the call in slot c takes a step to rec
Step(c, rec) ==
  \E new \in {rec} :
    /\ call' = [call EXCEPT ![c] = new]
    /\ owed' = OwedAfter(call[c], new)

Fail == left.failures > 0 /\ left' = [left EXCEPT !.failures = @ - 1]
NoFail == UNCHANGED left

-----------------------------------------------------------------------------
(* set, increment, decrement *)

\* set(key, value, ttl), l.52-54: the class is chosen, the resolver is asked
StartSet(c, ns, key, ttl) ==
  StartWrite(c, [IdleCall EXCEPT !.op = "set", !.ns = ns, !.key = key, !.ttl = ttl,
                                 !.reference = referenceOf(ttl),
                                 !.nsCalls = 1, !.nsP = "pending"])

\* increment / decrement, l.69-73 and l.84-88: the resolver is asked and the
\* primitive operation is issued in the same turn
StartCounter(c, op, ns, key) ==
  StartWrite(c, [IdleCall EXCEPT !.op = op, !.ns = ns, !.key = key,
                                 !.nsCalls = 1, !.nsP = "pending",
                                 !.prim = "inflight"])

StartIncrement(c, ns, key) == StartCounter(c, "increment", ns, key)

StartDecrement(c, ns, key) == StartCounter(c, "decrement", ns, key)

\* the pipeline of the call: pushKeys(namespace, key, reference) for set,
\* pushStandardKeys(namespace, key) for increment and decrement
pipelineOf(rec) ==
  IF rec.op = "set" THEN pushKeys(rec.ns, rec.key, rec.reference)
  ELSE pushStandardKeys(rec.ns, rec.key)

\* getNamespace() resolves: the pipeline is built and executed; set also
\* issues super.set here (l.55-58)
ResolveNamespace(c) ==
  /\ IsWrite(c)
  /\ call[c].nsP = "pending"
  /\ Step(c, Settle([call[c] EXCEPT !.nsP = "ok",
                                    !.pipe = pipelineOf(call[c]),
                                    !.push = "inflight",
                                    !.prim = IF call[c].op = "set" THEN "inflight" ELSE @]))
  /\ NoFail
  /\ UNCHANGED <<values, refs, everStd>>

\* getNamespace() rejects
RejectNamespace(c) ==
  /\ IsWrite(c)
  /\ call[c].nsP = "pending"
  /\ Fail
  /\ Step(c, Settle([call[c] EXCEPT !.nsP = "fail"]))
  /\ UNCHANGED <<values, refs, everStd>>

\* the call once the next command of its pipeline has been processed;
\* exec() resolves after the last one
AfterCommand(rec, err) ==
  Settle([rec EXCEPT !.pipeAt = @ + 1,
                     !.pipeErr = @ \/ err,
                     !.push = IF rec.pipeAt + 1 = Len(rec.pipe) THEN "ok" ELSE @])

\* the store executes the next sadd of the pipeline
ExecSadd(c) ==
  /\ IsWrite(c)
  /\ call[c].push = "inflight"
  /\ LET cmd == call[c].pipe[call[c].pipeAt + 1]
     IN  /\ refs' = Sadd(refs, cmd.referenceKey, cmd.member)
         /\ everStd' = IF cmd.referenceKey[4] = REFERENCE_KEY_STANDARD
                         THEN everStd \cup {cmd.member} ELSE everStd
  /\ Step(c, AfterCommand(call[c], FALSE))
  /\ NoFail
  /\ UNCHANGED values

\* the store answers the next sadd of the pipeline with an error: exec()
\* carries the error in its results and still resolves
ExecSaddError(c) ==
  /\ IsWrite(c)
  /\ call[c].push = "inflight"
  /\ Fail
  /\ Step(c, AfterCommand(call[c], TRUE))
  /\ UNCHANGED <<values, refs, everStd>>

\* the batch itself fails: exec() rejects, the commands left are not applied
ExecFail(c) ==
  /\ IsWrite(c)
  /\ call[c].push = "inflight"
  /\ Fail
  /\ Step(c, Settle([call[c] EXCEPT !.push = "fail"]))
  /\ UNCHANGED <<values, refs, everStd>>

\* super.set / super.increment / super.decrement: the primitive write of the
\* entry, kept under the fully-qualified key of the call's namespace
SuperWrite(c) ==
  /\ IsWrite(c)
  /\ call[c].prim = "inflight"
  /\ values' = values \cup {fullKey(call[c].ns, call[c].key)}
  /\ Step(c, Settle([call[c] EXCEPT !.prim = "ok"]))
  /\ NoFail
  /\ UNCHANGED <<refs, everStd>>

\* the primitive write fails, applied or not
SuperWriteFail(c, applied) ==
  /\ IsWrite(c)
  /\ call[c].prim = "inflight"
  /\ Fail
  /\ values' = IF applied THEN values \cup {fullKey(call[c].ns, call[c].key)} ELSE values
  /\ Step(c, Settle([call[c] EXCEPT !.prim = "fail"]))
  /\ UNCHANGED <<refs, everStd>>

-----------------------------------------------------------------------------
(* flush, deleteForeverKeys, deleteStandardKeys *)

\* a flush operation starts in slot c: each class flush it starts asks the
\* resolver (l.169)
StartFlushOp(c, op, ns) ==
  /\ Free(c)
  /\ left.flushes > 0
  /\ left' = [left EXCEPT !.flushes = @ - 1]
  /\ call' = [call EXCEPT ![c] =
           [IdleCall EXCEPT
              !.op = op, !.ns = ns,
              !.nsCalls = Cardinality(classesOf(op)),
              !.cls = [r \in References |->
                         IF r \in classesOf(op) THEN [IdleClass EXCEPT !.st = "ns"]
                         ELSE IdleClass],
              !.snap = [r \in References |->
                          IF r \in classesOf(op) THEN Indexed(ns, r) ELSE {}],
              !.owed0 = owed \cap KeysOfNs(ns)]]
  /\ UNCHANGED <<values, refs, owed, everStd>>

\* flush(), l.96-102
StartFlush(c, ns) == StartFlushOp(c, "flush", ns)

\* deleteForeverKeys(), l.149-151
StartDeleteForeverKeys(c, ns) == StartFlushOp(c, "deleteForeverKeys", ns)

\* deleteStandardKeys(), l.158-160
StartDeleteStandardKeys(c, ns) == StartFlushOp(c, "deleteStandardKeys", ns)

\* getNamespace() resolves in deleteKeysByReference: one deleteValues is
\* started per segment, each issuing its smembers (l.171-174, l.187)
ResolveFlushNamespace(c, r) ==
  /\ IsFlush(c)
  /\ call[c].cls[r].st = "ns"
  /\ Step(c, [call[c] EXCEPT !.cls[r].st = "values",
                             !.cls[r].dv = [i \in 1..Len(split(call[c].ns)) |-> NewDeleteValues]])
  /\ NoFail
  /\ UNCHANGED <<values, refs, everStd>>

\* getNamespace() rejects in deleteKeysByReference
RejectFlushNamespace(c, r) ==
  /\ IsFlush(c)
  /\ call[c].cls[r].st = "ns"
  /\ Fail
  /\ Step(c, Settle([call[c] EXCEPT !.cls[r].st = "fail"]))
  /\ UNCHANGED <<values, refs, everStd>>

\* deleteValues returning at once when there are members
AfterMembersSkip(members) ==
  [st |-> "ok", chunks |-> <<>>, started |-> 0, inflight |-> {}]

\* deleteValues starting the delete of every chunk at once
AfterMembersUnbounded(members) ==
  LET chunks == chunkArray(Dedup(members), left.chunkSize)
  IN  [st |-> IF chunks = <<>> THEN "ok" ELSE "map",
       chunks |-> chunks, started |-> Len(chunks), inflight |-> 1..Len(chunks)]

\* deleteValues once smembers has replied with the members: they are
\* deduplicated and chunked, and Promise.map starts up to Concurrency chunk
\* deletes; with no chunk it is fulfilled at once (l.188-197; an array is
\* never falsy, so the branch of l.190 is not taken).  The chunk size and
\* the concurrency are the literals of l.194 and l.196, read from left so
\* that BatchSpec can run the same code with smaller ones
AfterMembers(members) ==
  LET chunks == chunkArray(Dedup(members), left.chunkSize)
      n == Min(left.concurrency, Len(chunks))
  IN  [st |-> IF chunks = <<>> THEN "ok" ELSE "map",
       chunks |-> chunks, started |-> n, inflight |-> 1..n]

\* smembers(referenceKey) replies
Smembers(c, r, i) ==
  /\ IsFlush(c)
  /\ i \in 1..Len(call[c].cls[r].dv)
  /\ call[c].cls[r].dv[i].st = "smembers"
  /\ \E members \in {SetToSeq(refs[referenceKeys(call[c].ns, r)[i]])} :
       \E dv \in {AfterMembers(members)} :
         Step(c, WithClass(call[c], r, [call[c].cls[r] EXCEPT !.dv[i] = dv]))
  /\ NoFail
  /\ UNCHANGED <<values, refs, everStd>>

\* smembers(referenceKey) fails
SmembersFail(c, r, i) ==
  /\ IsFlush(c)
  /\ i \in 1..Len(call[c].cls[r].dv)
  /\ call[c].cls[r].dv[i].st = "smembers"
  /\ Fail
  /\ Step(c, WithClass(call[c], r, [call[c].cls[r] EXCEPT !.dv[i].st = "fail"]))
  /\ UNCHANGED <<values, refs, everStd>>

\* Promise.map once the del of chunk j is fulfilled: the next chunk waiting
\* is started; the map is fulfilled when no chunk is left.  A map that was
\* rejected starts nothing more.
AfterChunk(dv, j) ==
  IF dv.st # "map" THEN [dv EXCEPT !.inflight = @ \ {j}]
  ELSE IF dv.started < Len(dv.chunks)
    THEN [dv EXCEPT !.inflight = (@ \ {j}) \cup {dv.started + 1}, !.started = @ + 1]
  ELSE [dv EXCEPT !.inflight = @ \ {j},
                  !.st = IF dv.inflight = {j} THEN "ok" ELSE @]

\* deleteValues deleting the reference set along with the chunk
ChunkDelWithSet(c, r, i, j) ==
  /\ IsFlush(c)
  /\ i \in 1..Len(call[c].cls[r].dv)
  /\ j \in call[c].cls[r].dv[i].inflight
  /\ values' = DelValues(values, Range(call[c].cls[r].dv[i].chunks[j]))
  /\ refs' = DelRefs(refs, {referenceKeys(call[c].ns, r)[i]})
  /\ Step(c, WithClass(call[c], r,
                [call[c].cls[r] EXCEPT !.dv[i] = AfterChunk(call[c].cls[r].dv[i], j)]))
  /\ NoFail
  /\ UNCHANGED everStd

\* store.del(chunk) is executed (l.195)
ChunkDel(c, r, i, j) ==
  /\ IsFlush(c)
  /\ i \in 1..Len(call[c].cls[r].dv)
  /\ j \in call[c].cls[r].dv[i].inflight
  /\ values' = DelValues(values, Range(call[c].cls[r].dv[i].chunks[j]))
  /\ refs' = DelRefs(refs, Range(call[c].cls[r].dv[i].chunks[j]))
  /\ Step(c, WithClass(call[c], r,
                [call[c].cls[r] EXCEPT !.dv[i] = AfterChunk(call[c].cls[r].dv[i], j)]))
  /\ NoFail
  /\ UNCHANGED everStd

\* store.del(chunk) fails, applied or not: Promise.map is rejected, the chunk
\* deletes in flight go on, the chunks waiting are not started
ChunkDelFail(c, r, i, j, applied) ==
  /\ IsFlush(c)
  /\ i \in 1..Len(call[c].cls[r].dv)
  /\ j \in call[c].cls[r].dv[i].inflight
  /\ Fail
  /\ values' = IF applied THEN DelValues(values, Range(call[c].cls[r].dv[i].chunks[j]))
               ELSE values
  /\ Step(c, WithClass(call[c], r,
                [call[c].cls[r] EXCEPT !.dv[i].inflight = @ \ {j}, !.dv[i].st = "fail"]))
  /\ UNCHANGED <<refs, everStd>>

\* store.del(...referenceKeys) is executed (l.175)
DelReferenceKeys(c, r) ==
  /\ IsFlush(c)
  /\ call[c].cls[r].st = "delrefs"
  /\ refs' = DelRefs(refs, Range(referenceKeys(call[c].ns, r)))
  /\ values' = DelValues(values, Range(referenceKeys(call[c].ns, r)))
  /\ Step(c, Settle([call[c] EXCEPT !.cls[r].st = "ok"]))
  /\ NoFail
  /\ UNCHANGED everStd

\* store.del(...referenceKeys) fails, applied or not
DelReferenceKeysFail(c, r, applied) ==
  /\ IsFlush(c)
  /\ call[c].cls[r].st = "delrefs"
  /\ Fail
  /\ refs' = IF applied THEN DelRefs(refs, Range(referenceKeys(call[c].ns, r))) ELSE refs
  /\ Step(c, Settle([call[c] EXCEPT !.cls[r].st = "fail"]))
  /\ UNCHANGED <<values, everStd>>

\* super.flush(): the primitive flush, which clears the entries of the namespace
SuperFlush(c) ==
  /\ call[c].op = "flush"
  /\ call[c].prim = "inflight"
  /\ values' = values \ KeysOfNs(call[c].ns)
  /\ Step(c, Settle([call[c] EXCEPT !.prim = "ok"]))
  /\ NoFail
  /\ UNCHANGED <<refs, everStd>>

\* super.flush() fails
SuperFlushFail(c) ==
  /\ call[c].op = "flush"
  /\ call[c].prim = "inflight"
  /\ Fail
  /\ Step(c, Settle([call[c] EXCEPT !.prim = "fail"]))
  /\ UNCHANGED <<values, refs, everStd>>

\* the call has reported and nothing of it is left running: the slot is free
Return(c) ==
  /\ Active(c)
  /\ call[c].result # "none"
  /\ Quiescent(call[c])
  /\ call' = [call EXCEPT ![c] = IdleCall]
  /\ UNCHANGED <<values, refs, left, owed, everStd>>

-----------------------------------------------------------------------------
(* Specifications *)

\* the store after the writes W, each a set / increment / decrement that has
\* completed: the value is kept and the key is in the reference set of every
\* segment of its namespace
ValuesOf(W) == {fullKey(e[1], e[2]) : e \in W}
RefsOf(W) ==
  [rk \in RefKeys |->
     {fullKey(e[1], e[2]) : e \in {x \in W : rk \in Range(referenceKeys(x[1], x[3]))}}]

InitStore(W) ==
  /\ values = ValuesOf(W)
  /\ refs = RefsOf(W)
  /\ call = [c \in Calls |-> IdleCall]
  /\ owed = {}
  /\ everStd = ValuesOf({e \in W : e[3] = REFERENCE_KEY_STANDARD})

Writes(c) ==
  \/ \E ns \in Namespaces, key \in WrittenKeys, ttl \in Ttls : StartSet(c, ns, key, ttl)
  \/ \E ns \in Namespaces, key \in WrittenKeys : StartIncrement(c, ns, key)
  \/ \E ns \in Namespaces, key \in WrittenKeys : StartDecrement(c, ns, key)
  \/ ResolveNamespace(c)
  \/ RejectNamespace(c)
  \/ ExecSadd(c)
  \/ ExecSaddError(c)
  \/ ExecFail(c)
  \/ SuperWrite(c)
  \/ \E applied \in BOOLEAN : SuperWriteFail(c, applied)

FlushStarts(c) ==
  \/ \E ns \in Namespaces : StartFlush(c, ns)
  \/ \E ns \in Namespaces : StartDeleteForeverKeys(c, ns)
  \/ \E ns \in Namespaces : StartDeleteStandardKeys(c, ns)

\* the chunk deletes in flight of a deleteValues
ChunkIds(c, r, i) == call[c].cls[r].dv[i].inflight

FlushSteps(c) ==
  \/ \E r \in References : ResolveFlushNamespace(c, r)
  \/ \E r \in References : \E i \in 1..Len(call[c].cls[r].dv) : Smembers(c, r, i)
  \/ \E r \in References : \E i \in 1..Len(call[c].cls[r].dv) :
       \E j \in ChunkIds(c, r, i) : ChunkDel(c, r, i, j)
  \/ \E r \in References : DelReferenceKeys(c, r)
  \/ SuperFlush(c)

FlushFailures(c) ==
  \/ \E r \in References : RejectFlushNamespace(c, r)
  \/ \E r \in References : \E i \in 1..Len(call[c].cls[r].dv) : SmembersFail(c, r, i)
  \/ \E r \in References : \E i \in 1..Len(call[c].cls[r].dv) :
       \E j \in ChunkIds(c, r, i), applied \in BOOLEAN : ChunkDelFail(c, r, i, j, applied)
  \/ \E r \in References, applied \in BOOLEAN : DelReferenceKeysFail(c, r, applied)
  \/ SuperFlushFail(c)

\* one write and one flush of callers that overlap, on a store that starts empty
Init ==
  /\ InitStore({})
  /\ left = [writes |-> 1, flushes |-> 1, failures |-> MaxFailures, overlap |-> TRUE,
             chunkSize |-> ChunkSize, concurrency |-> Concurrency]

Next ==
  \E c \in Calls :
    Writes(c) \/ FlushStarts(c) \/ FlushSteps(c) \/ FlushFailures(c) \/ Return(c)

Spec == Init /\ [][Next]_vars

\* writes alone, of callers that overlap
WriteInit ==
  /\ InitStore({})
  /\ left = [writes |-> MaxWrites, flushes |-> 0, failures |-> MaxFailures,
             overlap |-> TRUE, chunkSize |-> ChunkSize, concurrency |-> Concurrency]

WriteNext == \E c \in Calls : Writes(c) \/ Return(c)

WriteSpec == WriteInit /\ [][WriteNext]_vars

\* flushes alone, with no write running: the store holds what completed
\* writes under one namespace have left, and a flush is started when the
\* calls before it have reported (what they left running goes on beside it)
FlushInit ==
  /\ \E ns \in Namespaces : \E W \in SUBSET ({ns} \X StoredKeys \X References) : InitStore(W)
  /\ left = [writes |-> 0, flushes |-> MaxFlushes, failures |-> MaxFailures,
             overlap |-> FALSE, chunkSize |-> ChunkSize, concurrency |-> Concurrency]

FlushNext ==
  \E c \in Calls : FlushStarts(c) \/ FlushSteps(c) \/ FlushFailures(c) \/ Return(c)

FlushSpec == FlushInit /\ [][FlushNext]_vars

\* one flush alone, on a store that answers every operation in flight
FlushOneInit ==
  /\ \E ns \in Namespaces : \E W \in SUBSET ({ns} \X StoredKeys \X References) : InitStore(W)
  /\ left = [writes |-> 0, flushes |-> 1, failures |-> MaxFailures, overlap |-> FALSE,
             chunkSize |-> ChunkSize, concurrency |-> Concurrency]

FlushFairSpec ==
  /\ FlushOneInit
  /\ [][FlushNext]_vars
  /\ \A c \in Calls : WF_vars(FlushSteps(c) \/ FlushFailures(c))

\* the starts and the steps of writes on a store that does not fail
WriteStarts(c) ==
  \/ \E ns \in Namespaces, key \in WrittenKeys, ttl \in Ttls : StartSet(c, ns, key, ttl)
  \/ \E ns \in Namespaces, key \in WrittenKeys : StartIncrement(c, ns, key)
  \/ \E ns \in Namespaces, key \in WrittenKeys : StartDecrement(c, ns, key)

WriteSteps(c) ==
  \/ ResolveNamespace(c)
  \/ ExecSadd(c)
  \/ SuperWrite(c)

\* writes that overlap, on a store that does not fail and holds what
\* completed writes under one namespace have left; the calls stay in their
\* slots once they have reported
IndexInit ==
  /\ \E ns \in Namespaces : \E W \in SUBSET ({ns} \X PresentKeys \X References) : InitStore(W)
  /\ left = [writes |-> MaxWrites, flushes |-> 0, failures |-> 0, overlap |-> TRUE,
             chunkSize |-> ChunkSize, concurrency |-> Concurrency]

IndexNext == \E c \in Calls : WriteStarts(c) \/ WriteSteps(c)

IndexSpec == IndexInit /\ [][IndexNext]_vars

\* one flush on reference sets of up to MaxMembers members, left by
\* completed writes of one class under one namespace; deleteValues runs with
\* the chunk size and the concurrency of the program or with smaller ones,
\* which make several chunks, and chunks that wait, out of a few members
ChunkSizes == 1..SmallChunk \cup {ChunkSize}
Concurrencies == 1..SmallConcurrency \cup {Concurrency}

BatchInit ==
  /\ \E ns \in Namespaces, r \in References, m \in 0..Min(MaxMembers, Len(KeySeq)) :
       InitStore({ns} \X {KeySeq[i] : i \in 1..m} \X {r})
  /\ \E cs \in ChunkSizes, cc \in Concurrencies :
       left = [writes |-> 0, flushes |-> 1, failures |-> MaxFailures, overlap |-> FALSE,
               chunkSize |-> cs, concurrency |-> cc]

BatchSpec == BatchInit /\ [][FlushNext]_vars

\* one flush operation on a store that holds what completed writes under
\* several namespaces have left, one of which shares no segment with "a"
StoredNamespaces == Namespaces \cup {<<"b">>}

ScopeInit ==
  /\ \E W \in SUBSET (StoredNamespaces \X StoredKeys \X References) : InitStore(W)
  /\ left = [writes |-> 0, flushes |-> 1, failures |-> MaxFailures, overlap |-> FALSE,
             chunkSize |-> ChunkSize, concurrency |-> Concurrency]

ScopeSpec == ScopeInit /\ [][FlushNext]_vars

\* writes and flushes of a caller that awaits each call before the next, on
\* a store that does not fail and starts empty
SeqInit ==
  /\ InitStore({})
  /\ left = [writes |-> MaxWrites, flushes |-> MaxFlushes, failures |-> 0,
             overlap |-> FALSE, chunkSize |-> ChunkSize, concurrency |-> Concurrency]

SeqNext ==
  \E c \in Calls :
    WriteStarts(c) \/ WriteSteps(c) \/ FlushStarts(c) \/ FlushSteps(c) \/ Return(c)

SeqSpec == SeqInit /\ [][SeqNext]_vars

-----------------------------------------------------------------------------
(* Properties *)

ForeverRefKeys == {referenceKey(s, REFERENCE_KEY_FOREVER) : s \in Segments}

\* the reference keys of the namespace for the class are absent from the store
NoReferenceKey(namespace, reference) ==
  \A i \in 1..Len(split(namespace)) : refs[referenceKeys(namespace, reference)[i]] = {}

\* C1: once a class flush has succeeded, with no write running, every key of
\* its namespace that was indexed under the class when it began is absent
\* from the primitive store, and so is the reference key of every segment.
FlushCompleteness ==
  \A c \in Calls : \A r \in References :
    call[c].cls[r].st = "ok" =>
      /\ call[c].snap[r] \cap values = {}
      /\ NoReferenceKey(call[c].ns, r)

\* a class flush of a namespace of two segments has succeeded, and a key was
\* indexed under the class when it began
FlushCompletenessWitness ==
  \E c \in Calls : \E r \in References :
    /\ call[c].cls[r].st = "ok"
    /\ call[c].snap[r] # {}
    /\ Len(call[c].cls[r].dv) = 2
    /\ \A i \in 1..2 : call[c].cls[r].dv[i].chunks # <<>>

\* every chunk of the deleteValues has been deleted
Deleted(dv) == dv.st = "ok" /\ dv.inflight = {} /\ dv.started = Len(dv.chunks)

\* C2: within one class flush the del of the reference keys is issued only
\* after the membership read and every chunk delete of every segment have
\* succeeded; if one of them fails, the call never issues that del and
\* reports the failure.
ReferenceKeysLast ==
  \A c \in Calls : \A r \in References :
    LET cl == call[c].cls[r]
    IN  /\ cl.delIssued => \A i \in 1..Len(cl.dv) : Deleted(cl.dv[i])
        /\ AnyFail(cl.dv) => ~cl.delIssued /\ cl.st = "fail" /\ call[c].result = "fail"

\* the del of the reference keys was issued after the chunk deletes of two segments
ReferenceKeysLastWitness ==
  \E c \in Calls : \E r \in References :
    /\ call[c].cls[r].delIssued
    /\ Len(call[c].cls[r].dv) = 2
    /\ \A i \in 1..2 : call[c].cls[r].dv[i].chunks # <<>>

\* C3: flush() invokes the primitive flush only after both class flushes
\* have succeeded; if either fails, it never invokes it and reports the failure.
PrimitiveFlushLast ==
  \A c \in Calls :
    call[c].op = "flush" =>
      /\ call[c].prim # "none" => \A r \in References : call[c].cls[r].st = "ok"
      /\ (\E r \in References : call[c].cls[r].st = "fail") =>
            call[c].prim = "none" /\ call[c].result = "fail"

\* a flush() has invoked the primitive flush, both its class flushes having
\* succeeded on keys that were indexed
PrimitiveFlushLastWitness ==
  \E c \in Calls :
    /\ call[c].op = "flush"
    /\ call[c].prim = "inflight"
    /\ \A r \in References : call[c].cls[r].st = "ok" /\ call[c].snap[r] # {}

\* a flush() one class flush of which has failed, on a store that fails no
\* more, while the other one has neither failed nor yet deleted its members
\* and its reference keys
SiblingPending ==
  \E c \in Calls : \E r1, r2 \in References :
    /\ r1 # r2
    /\ call[c].op = "flush"
    /\ call[c].cls[r1].st = "fail"
    /\ call[c].cls[r2].st # "fail"
    /\ left.failures = 0
    /\ ~(call[c].cls[r2].st = "ok" /\ NoReferenceKey(call[c].ns, r2))

\* C4: when one class flush of a flush() has failed, the other one is not
\* cancelled: on a store that answers and fails no more, it goes on to
\* delete its members and its reference keys.
ClassFlushesIndependent == SiblingPending ~> ~SiblingPending

\* one class flush has failed and the other has gone on to succeed, having
\* deleted members
ClassFlushesIndependentWitness ==
  \E c \in Calls : \E r1, r2 \in References :
    /\ r1 # r2
    /\ call[c].op = "flush"
    /\ call[c].cls[r1].st = "fail"
    /\ call[c].cls[r2].st = "ok"
    /\ call[c].snap[r2] # {}

\* the keys of the namespace, indexed under the Forever class, that steps of
\* calls flushing only the Standard class must keep
Kept(c) == {k \in values : k \in Indexed(call[c].ns, REFERENCE_KEY_FOREVER)}

\* C5 as stated: a flush of the Standard class alone removes no key indexed
\* under the Forever class and changes no Forever reference set.
ClassIsolationAll ==
  [][\A c \in Calls :
       (call[c].op = "deleteStandardKeys" /\ call'[c] # call[c]) =>
         /\ \A rk \in ForeverRefKeys : refs'[rk] = refs[rk]
         /\ Kept(c) \subseteq values']_vars

\* C5, amended: a flush of the Standard class alone removes no key that is
\* indexed under the Forever class and was never indexed under the Standard
\* class, and changes no Forever reference set.
ClassIsolation ==
  [][\A c \in Calls :
       (call[c].op = "deleteStandardKeys" /\ call'[c] # call[c]) =>
         /\ \A rk \in ForeverRefKeys : refs'[rk] = refs[rk]
         /\ (Kept(c) \ everStd) \subseteq values']_vars

\* deleteStandardKeys has succeeded and a key indexed under Forever alone is kept
ClassIsolationWitness ==
  \E c \in Calls :
    /\ call[c].op = "deleteStandardKeys"
    /\ call[c].result = "ok"
    /\ Kept(c) \ everStd # {}

\* C6 as stated: set with a ttl (0 included) adds the key to the Standard set
\* of every segment, set without a ttl to the Forever set of every segment.
ClassFromTtlPresence ==
  \A c \in Calls :
    (call[c].op = "set" /\ call[c].push # "none") =>
      call[c].pipe = pushKeys(call[c].ns, call[c].key,
                              IF call[c].ttl # NoTtl THEN REFERENCE_KEY_STANDARD
                              ELSE REFERENCE_KEY_FOREVER)

\* C7 as stated: set reports success exactly when every addition of the
\* index batch and the primitive set have succeeded.
SetSucceedsIffBoth ==
  \A c \in Calls :
    call[c].op = "set" =>
      (call[c].result = "ok" <=>
         (call[c].push = "ok" /\ ~call[c].pipeErr /\ call[c].prim = "ok"))

\* C8: every step of increment and decrement leaves the Forever reference
\* sets as they are, and once its pipeline has been executed the key is in
\* the Standard reference set of every segment of the namespace.
CountersIndexStandard ==
  [][\A c \in Calls :
       (call[c].op \in {"increment", "decrement"} /\ call'[c] # call[c]) =>
         /\ \A rk \in ForeverRefKeys : refs'[rk] = refs[rk]
         /\ (call'[c].push = "ok" /\ ~call'[c].pipeErr) =>
              \A i \in 1..Len(split(call[c].ns)) :
                fullKey(call[c].ns, call[c].key)
                  \in refs'[referenceKey(split(call[c].ns)[i], REFERENCE_KEY_STANDARD)]]_vars

\* an increment or decrement has indexed a key of a namespace of two
\* segments that set had written without a ttl
CountersIndexStandardWitness ==
  \E c \in Calls :
    /\ call[c].op \in {"increment", "decrement"}
    /\ call[c].push = "ok" /\ ~call[c].pipeErr
    /\ Len(call[c].pipe) = 2
    /\ \A i \in 1..2 :
         fullKey(call[c].ns, call[c].key)
           \in refs[referenceKey(split(call[c].ns)[i], REFERENCE_KEY_FOREVER)]

\* C9 as stated: when the resolver fails in set, increment or decrement, the
\* call reports failure, asks the resolver no more and issues no store
\* operation.
ResolverFailureBlocks ==
  \A c \in Calls :
    (IsWrite(c) /\ call[c].nsP = "fail") =>
      /\ call[c].result = "fail"
      /\ call[c].nsCalls = 1
      /\ call[c].push = "none"
      /\ call[c].prim = "none"

\* C10: once a flush() started after a flush() of its namespace had failed
\* has both its class flushes succeed, with no write running, every key that
\* was indexed when a failed flush began, and every key indexed when it
\* began itself, is absent from the primitive store, and the reference keys
\* of both classes are absent.
RetryConverges ==
  \A c \in Calls :
    (call[c].op = "flush" /\ \A r \in References : call[c].cls[r].st = "ok") =>
      /\ call[c].owed0 \cap values = {}
      /\ \A r \in References :
           call[c].snap[r] \cap values = {} /\ NoReferenceKey(call[c].ns, r)

\* a flush() started after a failed one, which had left a key indexed, has
\* both its class flushes succeed
RetryConvergesWitness ==
  \E c \in Calls :
    /\ call[c].op = "flush"
    /\ \A r \in References : call[c].cls[r].st = "ok"
    /\ \E r \in References : call[c].owed0 \cap call[c].snap[r] # {}

\* the members the calls in flight add to the reference key
Adding(rk) ==
  UNION {{call[c].pipe[i].member :
            i \in {j \in 1..Len(call[c].pipe) : call[c].pipe[j].referenceKey = rk}} :
         c \in Calls}

\* the additions of the pipelines executed so far are in their reference sets
NoAdditionLost ==
  \A c \in Calls : \A i \in 1..call[c].pipeAt :
    call[c].pipe[i].member \in refs[call[c].pipe[i].referenceKey]

\* C11: however index calls on a store that does not fail interleave, none
\* fails, every step leaves each reference set holding its previous members
\* and at most the members the calls add to it, and every addition executed
\* so far is in its set: when the calls have finished each set is exactly the
\* union of its previous members and the keys added.
ConcurrentAddSafety ==
  [][/\ \A rk \in RefKeys : refs[rk] \subseteq refs'[rk] /\ refs'[rk] \ refs[rk] \subseteq Adding(rk)'
     /\ NoAdditionLost'
     /\ \A c \in Calls :
          /\ call'[c].result # "fail"
          /\ call'[c].push = "ok" /\ call'[c].prim = "ok" => call'[c].result = "ok"]_vars

\* two calls adding distinct keys to the same namespace and class, whose
\* batches interleaved on a reference set that had a member, have succeeded
ConcurrentAddSafetyWitness ==
  /\ \A c \in Calls : IsWrite(c) /\ call[c].result = "ok" /\ Len(call[c].pipe) = 2
  /\ call["c1"].ns = call["c2"].ns
  /\ call["c1"].key # call["c2"].key
  /\ call["c1"].pipe[1].referenceKey = call["c2"].pipe[1].referenceKey
  /\ \A i \in 1..2 :
       refs[call["c1"].pipe[i].referenceKey]
         = {fullKey(call["c1"].ns, key) : key \in PresentKeys \cup {"k", "j"}}

\* C12: an addition of a key that is already a member of the reference set,
\* added by an earlier index of the same key under the same namespace and
\* class, leaves every reference set as it was.
IdempotentIndexing ==
  [][\A c \in Calls :
       (IsWrite(c) /\ call'[c].pipeAt = call[c].pipeAt + 1) =>
         LET cmd == call[c].pipe[call'[c].pipeAt]
         IN  cmd.member \in refs[cmd.referenceKey] => refs' = refs]_vars

\* two calls have indexed the same key under the same namespace of two
\* segments and the same class: each set holds the key once, beside the
\* member it had
IdempotentIndexingWitness ==
  /\ \A c \in Calls : IsWrite(c) /\ call[c].push = "ok" /\ Len(call[c].pipe) = 2
  /\ call["c1"].pipe = call["c2"].pipe
  /\ \A i \in 1..2 :
       refs[call["c1"].pipe[i].referenceKey]
         = {fullKey(call["c1"].ns, key) : key \in PresentKeys} \cup {call["c1"].pipe[i].member}

\* the segments of the namespace of the set in slot c in whose reference set,
\* for the class of the set, its key is a member
IndexedIn(c) ==
  {i \in 1..Len(split(call[c].ns)) :
     fullKey(call[c].ns, call[c].key)
       \in refs[referenceKey(split(call[c].ns)[i], call[c].reference)]}

\* C13 as stated: when one set and one flush() of the same namespace have
\* both finished on a store that has not failed, the key is flushed whole
\* (no value, in no reference set), indexed-then-lost (value present, in no
\* reference set) or indexed-after-flush (value present, in the reference set
\* of every segment).
RaceOutcomes ==
  \A c, d \in Calls :
    ( /\ call[c].op = "set" /\ call[d].op = "flush" /\ call[c].ns = call[d].ns
      /\ left.failures = MaxFailures
      /\ call[c].result # "none" /\ Quiescent(call[c])
      /\ call[d].result # "none" /\ Quiescent(call[d]) )
    => LET present == fullKey(call[c].ns, call[c].key) \in values
       IN  \/ ~present /\ IndexedIn(c) = {}
           \/ present /\ IndexedIn(c) = {}
           \/ present /\ IndexedIn(c) = 1..Len(split(call[c].ns))

Ceil(m, n) == (m + n - 1) \div n

RECURSIVE Concat(_)
Concat(seqs) == IF seqs = <<>> THEN <<>> ELSE Head(seqs) \o Concat(Tail(seqs))

\* the chunks are what chunking the array by the chunk size must give
ChunksOf(array, chunkSize, chunks) ==
  /\ Len(chunks) = Ceil(Len(array), chunkSize)
  /\ \A j \in 1..Len(chunks) : Len(chunks[j]) \in 1..chunkSize
  /\ Concat(chunks) = array

\* chunkArray at the chunk size of the program, on arrays around its multiples
ChunkingAtProgramSize ==
  \A m \in {0, 1, ChunkSize - 1, ChunkSize, ChunkSize + 1, 2 * ChunkSize, 2 * ChunkSize + 1} :
    ChunksOf([i \in 1..m |-> i], ChunkSize, chunkArray([i \in 1..m |-> i], ChunkSize))

\* C14: deleteValues whose membership read has replied, on a reference set
\* of M members (the set is there until the class flush deletes the
\* reference keys): the chunks name every member once, each at most the chunk size of them, there are
\* ceil(M / chunk size) of them, at most one delete is issued per chunk and,
\* once it has succeeded, exactly one per chunk, and all M keys are absent;
\* with no member it succeeds on the membership read, no delete issued.
ChunkingCorrect ==
  /\ ChunkingAtProgramSize
  /\ \A c \in Calls : \A r \in References : \A i \in 1..Len(call[c].cls[r].dv) :
       LET dv == call[c].cls[r].dv[i]
           members == refs[referenceKeys(call[c].ns, r)[i]]
       IN  ( /\ dv.st \in {"map", "ok"} \/ dv.chunks # <<>>
             /\ ~call[c].cls[r].delIssued \/ call[c].cls[r].st = "delrefs" ) =>
             /\ Len(dv.chunks) = Ceil(Cardinality(members), left.chunkSize)
             /\ \A j \in 1..Len(dv.chunks) : Len(dv.chunks[j]) \in 1..left.chunkSize
             /\ Len(Concat(dv.chunks)) = Cardinality(members)
             /\ Range(Concat(dv.chunks)) = members
             /\ dv.started <= Len(dv.chunks)
             /\ dv.st = "ok" => dv.started = Len(dv.chunks) /\ members \cap values = {}
             /\ members = {} => dv.st = "ok" /\ dv.started = 0

\* a deleteValues has succeeded on five members in three chunks
ChunkingCorrectWitness ==
  \E c \in Calls : \E r \in References : \E i \in 1..Len(call[c].cls[r].dv) :
    /\ call[c].cls[r].dv[i].st = "ok"
    /\ Len(call[c].cls[r].dv[i].chunks) = 3
    /\ Cardinality(refs[referenceKeys(call[c].ns, r)[i]]) = 5

\* C15: at every moment at most Concurrency chunk deletes of a deleteValues
\* are in flight, a step starts a further one only as one of them completes,
\* and the deleteValues has succeeded only when the delete of every chunk
\* has been issued and has completed.
BoundedConcurrency ==
  [][\A c \in Calls : \A r \in References : \A i \in 1..Len(call'[c].cls[r].dv) :
       LET new == call'[c].cls[r].dv[i]
       IN  /\ Cardinality(new.inflight) <= left.concurrency
           /\ new.st = "ok" => new.inflight = {} /\ new.started = Len(new.chunks)
           /\ (i \in 1..Len(call[c].cls[r].dv) /\ call[c].cls[r].dv[i].st = "map") =>
                 LET old == call[c].cls[r].dv[i]
                 IN  new.started > old.started =>
                       /\ new.started = old.started + 1
                       /\ old.inflight \ new.inflight # {}]_vars

\* a deleteValues with as many chunk deletes in flight as the concurrency
\* allows, more than one, and a chunk waiting
BoundedConcurrencyWitness ==
  \E c \in Calls : \E r \in References : \E i \in 1..Len(call[c].cls[r].dv) :
    /\ call[c].cls[r].dv[i].st = "map"
    /\ Cardinality(call[c].cls[r].dv[i].inflight) = left.concurrency
    /\ left.concurrency > 1
    /\ call[c].cls[r].dv[i].started < Len(call[c].cls[r].dv[i].chunks)

\* the segments of the namespaces, written out
SegmentsWrittenOut(namespace) ==
  IF namespace = <<"a">> THEN << <<"a">> >> ELSE << <<"a">>, <<"b">> >>

\* C16: the batch of an index call holds one set-add per segment of the
\* namespace, in order, each to the reference key
\* <tagPrefix><segment>:<class token> and each adding the member
\* <keyPrefix><hash of the whole namespace>:<key>; the call has that one
\* batch, no command of which is executed twice.
OneBatchPerIndex ==
  \A c \in Calls :
    (IsWrite(c) /\ call[c].push # "none") =>
      LET class == IF call[c].op = "set" THEN call[c].reference ELSE "standard_ref"
          segments == SegmentsWrittenOut(call[c].ns)
      IN  /\ Len(call[c].pipe) = Len(segments)
          /\ \A i \in 1..Len(segments) :
               /\ call[c].pipe[i].referenceKey = <<"tags:", segments[i], ":", class>>
               /\ call[c].pipe[i].member = <<"cache:", <<"sha1", call[c].ns>>, ":", call[c].key>>
          /\ call[c].pipeAt <= Len(call[c].pipe)
          /\ call[c].push = "ok" => call[c].pipeAt = Len(call[c].pipe)

\* the batch of a call under a namespace of two segments has been executed
\* and its member is in the reference set of both segments
OneBatchPerIndexWitness ==
  \E c \in Calls :
    /\ IsWrite(c) /\ call[c].push = "ok" /\ ~call[c].pipeErr
    /\ call[c].ns = <<"a", "|", "b">>
    /\ \A i \in 1..2 : call[c].pipe[i].member \in refs[call[c].pipe[i].referenceKey]

\* C17: no step of set, increment or decrement removes a member from a
\* reference set or deletes one, the steps of the index pipeline change no
\* primary value, and a step that removes anything from a reference set is
\* the del of the reference keys of a class flush of that set's segment
\* and class, not a step of deleteValues.
WritePathFrame ==
  [][/\ \A c \in Calls :
          ((call[c].op \in WriteOps \/ call'[c].op \in WriteOps) /\ call'[c] # call[c]) =>
            /\ \A rk \in RefKeys : refs[rk] \subseteq refs'[rk]
            /\ (call'[c].pipeAt # call[c].pipeAt \/ call'[c].push # call[c].push) =>
                  values' = values
     /\ \A rk \in RefKeys :
          ~(refs[rk] \subseteq refs'[rk]) =>
            \E c \in Calls : \E r \in References :
              /\ IsFlush(c)
              /\ call[c].cls[r].st = "delrefs" /\ call'[c].cls[r].st # "delrefs"
              /\ call'[c].cls[r].dv = call[c].cls[r].dv
              /\ rk \in Range(referenceKeys(call[c].ns, r))]_vars

\* a write has indexed its key, and a class flush has deleted members and
\* its reference keys
WritePathFrameWitness ==
  \E c, d \in Calls : \E r \in References :
    /\ IsWrite(c) /\ call[c].push = "ok" /\ ~call[c].pipeErr
    /\ IsFlush(d) /\ call[d].cls[r].st = "ok"
    /\ \E i \in 1..Len(call[d].cls[r].dv) : call[d].cls[r].dv[i].chunks # <<>>

\* the two namespaces have a segment in common
Shares(n1, n2) == Range(split(n1)) \cap Range(split(n2)) # {}

\* the step is one of the class flushes of the call in slot c, not its
\* primitive flush
ClassFlushStep(c) ==
  /\ IsFlush(c)
  /\ call'[c] # call[c]
  /\ ~(call[c].prim = "inflight" /\ call'[c].prim # "inflight")

\* C18: when a class flush under N has deleted the members it read, every
\* key of a namespace N' that is a member of the reference set of a segment
\* N' shares with N is absent from the primitive store; and no step of a
\* class flush under N changes a key or a reference set of a namespace N'
\* that shares no segment with N.
FlushScope ==
  [][\A c \in Calls :
       ClassFlushStep(c) =>
         /\ \A r \in References :
              call'[c].cls[r].st = "delrefs" =>
                \A n \in StoredNamespaces : \A k \in Keys :
                  (\E s \in Range(split(n)) \cap Range(split(call[c].ns)) :
                     fullKey(n, k) \in refs'[referenceKey(s, r)])
                    => fullKey(n, k) \notin values'
         /\ \A n \in StoredNamespaces :
              ~Shares(n, call[c].ns) =>
                /\ values' \cap KeysOfNs(n) = values \cap KeysOfNs(n)
                /\ \A s \in Range(split(n)) : \A r \in References :
                     refs'[referenceKey(s, r)] = refs[referenceKey(s, r)]]_vars

\* a class flush under "a" has succeeded: it has deleted a key written under
\* "a|b" and has left a key written under "b", in the same class, with its
\* reference set
FlushScopeWitness ==
  \E c \in Calls : \E r \in References :
    /\ call[c].ns = <<"a">> /\ call[c].cls[r].st = "ok"
    /\ fullKey(<<"a", "|", "b">>, "k") \in Range(Concat(call[c].cls[r].dv[1].chunks))
    /\ fullKey(<<"a", "|", "b">>, "k") \notin values
    /\ fullKey(<<"b">>, "k") \in values
    /\ fullKey(<<"b">>, "k") \in refs[referenceKey(<<"b">>, r)]

\* the key of the namespace is in the reference set of every segment of the
\* namespace, for the class, in the reference sets rs
FullyIndexedIn(rs, namespace, key, reference) ==
  \A i \in 1..Len(split(namespace)) :
    fullKey(namespace, key) \in rs[referenceKeys(namespace, reference)[i]]

FullyIndexed(namespace, key, reference) == FullyIndexedIn(refs, namespace, key, reference)

\* no call is in progress
BetweenCalls == \A c \in Calls : Active(c) => call[c].result # "none"

\* C19: with calls that do not overlap, on a store that does not fail: when
\* a write reports, its key is in the reference set of every segment of its
\* namespace, for its class; a step takes a key out of a reference set only
\* when its value is absent afterwards; and between calls every key present
\* in the primitive store is in the reference set of every segment of its
\* namespace, for some class.
IndexConsistency ==
  [][/\ \A c \in Calls :
          (call'[c].op \in WriteOps /\ call[c].result = "none" /\ call'[c].result # "none") =>
            /\ call'[c].result = "ok"
            /\ FullyIndexedIn(refs', call'[c].ns, call'[c].key,
                              IF call'[c].op = "set" THEN call'[c].reference
                              ELSE REFERENCE_KEY_STANDARD)
     /\ \A rk \in RefKeys : (refs[rk] \ refs'[rk]) \cap values' = {}
     /\ BetweenCalls' =>
          \A n \in Namespaces : \A k \in Keys :
            fullKey(n, k) \in values' =>
              \E r \in References : FullyIndexedIn(refs', n, k, r)]_vars

\* after a flush() of the namespace of two segments, a set has written its
\* key, which is present and indexed
IndexConsistencyWitness ==
  \E c, d \in Calls :
    /\ call[c].op = "set" /\ call[c].result = "ok"
    /\ call[d].op = "flush" /\ call[d].result = "ok"
    /\ call[c].ns = <<"a", "|", "b">> /\ call[d].ns = call[c].ns
    /\ fullKey(call[c].ns, call[c].key) \in values
    /\ FullyIndexed(call[c].ns, call[c].key, call[c].reference)

\* C20 as stated: a call that has reported, success or failure, has no
\* promise pending and no store operation in flight.
QuiescentOnReturn ==
  \A c \in Calls : call[c].result # "none" => Quiescent(call[c])

====
